---- MODULE Spec2Model ----
(***************************************************************************)
(* A model of pygeospd.GeosArray (src/pygeospd/_array.py): the geometry    *)
(* column container over numpy object arrays.                              *)
(*                                                                         *)
(* The heap `arrays` holds the numpy buffers.  A GeosArray is a view       *)
(* [arr, ix] into one buffer (numpy slices and np.asarray of an ndarray    *)
(* share memory), together with a history field `orig`, the elements the   *)
(* column held right after its construction.  Buffers that share no memory *)
(* cannot affect each other, so the heap keeps one live buffer and the     *)
(* Columns that are views of it: a result in a buffer of its own replaces  *)
(* the live one (the caller rebinds its name), other Columns an operation  *)
(* reads are built from lists on the spot.  `res` is the outcome of the    *)
(* call in progress: its arguments, the error raised ("none" when it       *)
(* returned), its value, and the operand's elements after the call;        *)
(* Return hands it to the caller.                                          *)
(***************************************************************************)
EXTENDS Integers, Sequences, FiniteSets

\* Bounds of the model: the longest list, index sequence or buffer, and the
\* most Columns kept alive on the live buffer.
MaxLen == 2
MaxCols == 2

VARIABLES arrays, cols, res
vars == <<arrays, cols, res>>

----------------------------------------------------------------------------
\* Values an element of an object array can be.

\* The z ordinate a 2D geometry reports when read in 3D (a float NaN).
NaN == 0 - 1

\* Python None: the engine's missing sentinel.
None == [k |-> "none", c |-> <<>>]
\* The host framework's generic null (pd.NA, float NaN).
NA == [k |-> "na", c |-> <<>>]
\* A value that is neither a geometry nor a null (a str, a number).
Text == [k |-> "text", c |-> <<>>]
\* A pygeos.lib.Geometry: a point with its ordinates.
Geom(c) == [k |-> "geom", c |-> c]
P2 == Geom(<<0, 1>>)
P3 == Geom(<<1, 0, 1>>)

Elems == {None, NA, Text, P2, P3}

SeqsUpTo(S, n) == UNION {[1..m -> S] : m \in 0..n}
Range(s) == {s[i] : i \in 1..Len(s)}
Whole(a, n) == [arr |-> a, ix |-> [i \in 1..n |-> i]]

\* isinstance(x, self._dtype.type)
isinstance_type(v) == v.k = "geom"
\* pd.isnull / pd.isna of one element
pd_isnull(v) == v.k \in {"none", "na"}
\* pygeos.is_missing of one element
is_missing(v) == v.k = "none"
\* pygeos.predicates.has_z of one geometry
has_z(v) == v.k = "geom" /\ Len(v.c) = 3

\* The elements a view shows.
Deref(arrs, view) == [i \in 1..Len(view.ix) |-> arrs[view.arr][view.ix[i]]]

\* Assignment through a view: view[i] = elems[i] for every i.
WriteView(arrs, view, elems) ==
    [arrs EXCEPT ![view.arr] =
        [j \in 1..Len(@) |->
            IF \E i \in 1..Len(view.ix) : view.ix[i] = j
            THEN elems[CHOOSE i \in 1..Len(view.ix) : view.ix[i] = j]
            ELSE @[j]]]

\* self.data[pd.isnull(self.data)] = None
NormalizeNulls(elems) ==
    [i \in 1..Len(elems) |-> IF pd_isnull(elems[i]) THEN None ELSE elems[i]]

Fail(e, arrs) == [err |-> e, arrs |-> arrs, view |-> Whole(0, 0)]

\* GeosArray.__init__(data): the heap after the call and the view self.data.
\* data is a Column ("col"), a scalar, a Python list, or an ndarray ("nd",
\* a view into the heap).
init(arrs, data) ==
    LET pre ==
          IF data.t = "col"
          THEN [err |-> "none", arrs |-> arrs, view |-> data.view]
          ELSE IF data.t = "scalar" /\ (data.v = None \/ isinstance_type(data.v))
          THEN [err |-> "none", arrs |-> Append(arrs, <<data.v>>),
                view |-> Whole(Len(arrs) + 1, 1)]
          ELSE IF data.t \in {"list", "nd"}
          THEN LET s == IF data.t = "list" THEN data.s ELSE Deref(arrs, data.view)
               IN IF Len(s) = 0 THEN Fail("IndexError", arrs)
                  ELSE IF s[1] = None \/ isinstance_type(s[1])
                  THEN IF data.t = "list"
                       THEN [err |-> "none", arrs |-> Append(arrs, s),
                             view |-> Whole(Len(arrs) + 1, Len(s))]
                       ELSE [err |-> "none", arrs |-> arrs, view |-> data.view]
                  ELSE Fail("ValueError", arrs)
          ELSE Fail("ValueError", arrs)
    IN IF pre.err # "none" THEN pre
       ELSE [pre EXCEPT !.arrs =
                WriteView(pre.arrs, pre.view, NormalizeNulls(Deref(pre.arrs, pre.view)))]

\* A freshly allocated ndarray holding elems, handed to the constructor.
init_fresh(arrs, elems) ==
    init(Append(arrs, elems), [t |-> "nd", view |-> Whole(Len(arrs) + 1, Len(elems))])


Column(arrs, view) == [arr |-> view.arr, ix |-> view.ix, orig |-> Deref(arrs, view)]
ViewOf(c) == [arr |-> c.arr, ix |-> c.ix]
Data(c) == Deref(arrays, ViewOf(c))
Live(arrs) == SubSeq(arrs, 1, Len(arrays))

\* The heap after a call that ends in a constructor, r being init's answer.
\* A result on the live buffer is one more live Column while there is room; a
\* result in a buffer of its own becomes the live buffer when rebind holds and
\* is dropped by the caller otherwise.  Writes the call made to the live
\* buffer stay in either case.
Commit(r, rebind) ==
    IF r.err # "none" THEN UNCHANGED <<arrays, cols>>
    ELSE IF r.view.arr <= Len(arrays)
    THEN /\ arrays' = Live(r.arrs)
         /\ cols' = IF Cardinality(cols \cup {Column(r.arrs, r.view)}) <= MaxCols
                    THEN cols \cup {Column(r.arrs, r.view)}
                    ELSE cols
    ELSE IF rebind
    THEN /\ arrays' = <<r.arrs[r.view.arr]>>
         /\ cols' = {Column(<<r.arrs[r.view.arr]>>, Whole(1, Len(r.view.ix)))}
    ELSE /\ arrays' = Live(r.arrs)
         /\ cols' = cols

\* The Column a call returned, as the set of its element sequences.
Out(r) == IF r.err = "none" THEN {Deref(r.arrs, r.view)} ELSE {}

Idle == [op |-> "idle"]

\* pandas/numpy integer indexing: negative positions count from the end.
Wrap(i, n) == IF i < 0 THEN i + n + 1 ELSE i + 1
InBounds(i, n) == 0 - n <= i /\ i < n
IdxRange == (0 - 2)..(MaxLen - 1)

\* Columns other than the live ones, built from a list: their elements.
Fresh(n) ==
    {Deref(r.arrs, r.view) :
        r \in {x \in {init(<<>>, [t |-> "list", s |-> s]) : s \in [1..n -> Elems]} :
                  x.err = "none"}}

----------------------------------------------------------------------------
\* GeosArray.__getitem__(key) for an integer key: the element.
getitem_int(data, key) ==
    IF InBounds(key, Len(data))
    THEN [err |-> "none", val |-> data[Wrap(key, Len(data))]]
    ELSE [err |-> "IndexError", val |-> None]

\* GeosArray.__getitem__(key) for a slice lo:hi: a Column on a numpy view.
getitem_slice(arrs, view, lo, hi) ==
    init(arrs, [t |-> "nd",
                view |-> [arr |-> view.arr, ix |-> SubSeq(view.ix, lo + 1, hi)]])

\* GeosArray.__getitem__(key) for a sequence of integers: a Column on a copy.
getitem_seq(arrs, view, key) ==
    LET data == Deref(arrs, view) IN
    IF \E i \in 1..Len(key) : ~InBounds(key[i], Len(data))
    THEN Fail("IndexError", arrs)
    ELSE init_fresh(arrs, [i \in 1..Len(key) |-> data[Wrap(key[i], Len(data))]])

\* A plausible __setitem__: the masked overwrite the method does not do.
setitem_overwrite(data, key, value) ==
    IF InBounds(key, Len(data))
    THEN [data EXCEPT ![Wrap(key, Len(data))] = value]
    ELSE data

\* GeosArray.__setitem__(key, value): self.data after the call.
setitem(data, key, value) == data

\* GeosArray.isna()
isna(data) == [i \in 1..Len(data) |-> is_missing(data[i])]

\* == of two pygeos geometries: exact equality of the ordinates (NaN # NaN).
HandleEq(g, h) ==
    /\ Len(g.c) = Len(h.c)
    /\ \A i \in 1..Len(g.c) : g.c[i] = h.c[i] /\ g.c[i] # NaN

\* Python == of two elements of an object array, as numpy's == applies it.
PyEq(a, b) ==
    IF a.k = "geom" /\ b.k = "geom" THEN HandleEq(a, b) ELSE a.k = b.k

Truth(b) == IF b THEN "true" ELSE "false"

\* A comparison that never equates missing values.
eq_missing_never_equal(data, other) ==
    [i \in 1..Len(data) |->
        Truth(PyEq(data[i], other[i]) /\ ~is_missing(data[i]))]

\* GeosArray.__eq__(other) for a Column other: self.data == other.data
eq(data, other) == [i \in 1..Len(data) |-> Truth(PyEq(data[i], other[i]))]

\* The fill-value check without the host framework's null test.
take_fill_none_only(allow_fill, fill_value) ==
    IF allow_fill
    THEN IF fill_value = None THEN [err |-> "none", fill |-> None]
         ELSE IF ~isinstance_type(fill_value)
         THEN [err |-> "TypeError", fill |-> fill_value]
         ELSE [err |-> "none", fill |-> fill_value]
    ELSE [err |-> "none", fill |-> fill_value]

\* GeosArray.take: the check of fill_value.
take_fill(allow_fill, fill_value) ==
    IF allow_fill
    THEN IF fill_value = None \/ pd_isnull(fill_value)
         THEN [err |-> "none", fill |-> None]
         ELSE IF ~isinstance_type(fill_value)
         THEN [err |-> "TypeError", fill |-> fill_value]
         ELSE [err |-> "none", fill |-> fill_value]
    ELSE [err |-> "none", fill |-> fill_value]

\* pandas.core.algorithms.take on an object array.  With allow_fill an index
\* below -1 is a ValueError and -1 takes the fill value, None being promoted
\* to NaN; without it numpy's take wraps negative indices.
pandas_take(data, indices, allow_fill, fill) ==
    LET n == Len(data) IN
    IF allow_fill
    THEN IF \E i \in 1..Len(indices) : indices[i] < 0 - 1
         THEN [err |-> "ValueError", val |-> <<>>]
         ELSE IF \E i \in 1..Len(indices) : indices[i] >= n
         THEN [err |-> "IndexError", val |-> <<>>]
         ELSE [err |-> "none",
               val |-> [i \in 1..Len(indices) |->
                           IF indices[i] = 0 - 1
                           THEN (IF fill = None THEN NA ELSE fill)
                           ELSE data[indices[i] + 1]]]
    ELSE IF \E i \in 1..Len(indices) : ~InBounds(indices[i], n)
         THEN [err |-> "IndexError", val |-> <<>>]
         ELSE [err |-> "none",
               val |-> [i \in 1..Len(indices) |-> data[Wrap(indices[i], n)]]]

\* GeosArray.take(indices, allow_fill, fill_value)
take(arrs, view, indices, allow_fill, fill_value) ==
    LET f == take_fill(allow_fill, fill_value) IN
    IF f.err # "none" THEN Fail(f.err, arrs)
    ELSE LET t == pandas_take(Deref(arrs, view), indices, allow_fill, f.fill) IN
         IF t.err # "none" THEN Fail(t.err, arrs)
         ELSE init_fresh(arrs, IF allow_fill /\ f.fill = None
                               THEN NormalizeNulls(t.val)
                               ELSE t.val)

\* GeosArray.copy()
copy(arrs, view) == init_fresh(arrs, Deref(arrs, view))

\* GeosArray._concat_same_type(to_concat), to_concat given by its buffers
concat_same_type(arrs, datas) ==
    init_fresh(arrs, IF Len(datas) = 1 THEN datas[1] ELSE datas[1] \o datas[2])

\* GeosArray._from_factorized(values, original), values being a Column's
\* own buffer as _values_for_factorize hands it out
from_factorized(arrs, view) == init(arrs, [t |-> "nd", view |-> view])

----------------------------------------------------------------------------
\* The coordinate transforms.

FAdd(x, v) == IF x = NaN THEN NaN ELSE x + v
FMul(x, v) == IF x = NaN THEN NaN ELSE x * v

\* Shapes np.asarray(other) can have: a scalar, a vector, a matrix.
Dims == {1, 2, 3, 4}
Shapes == {<<>>} \cup {<<d>> : d \in Dims} \cup {<<e, d>> : e \in {1, 2}, d \in Dims}

\* other.ndim and other.shape[-1]
Trailing(shape) == IF Len(shape) = 0 THEN 0 ELSE shape[Len(shape)]

\* pygeos.predicates.has_z(self.data).any(); the engine takes only
\* geometries and None.
any_has_z(data) ==
    IF Text \in Range(data) THEN [err |-> "TypeError", zdim |-> FALSE]
    ELSE [err |-> "none", zdim |-> \E i \in 1..Len(data) : has_z(data[i])]

\* An inference that forgets the size-2 case.
zdim_no_2d(shape, data) ==
    IF Trailing(shape) = 3 THEN [err |-> "none", zdim |-> TRUE]
    ELSE any_has_z(data)

\* The Z-dimension flag of __add__
zdim_add(shape, data) ==
    IF Trailing(shape) = 2 THEN [err |-> "none", zdim |-> FALSE]
    ELSE IF Trailing(shape) = 3 THEN [err |-> "none", zdim |-> TRUE]
    ELSE any_has_z(data)

\* The Z-dimension flag of __radd__
zdim_radd(shape, data) ==
    IF Trailing(shape) = 2 THEN [err |-> "none", zdim |-> FALSE]
    ELSE IF Trailing(shape) = 3 THEN [err |-> "none", zdim |-> TRUE]
    ELSE any_has_z(data)

\* The Z-dimension flag of __mul__
zdim_mul(shape, data) ==
    IF Trailing(shape) = 2 THEN [err |-> "none", zdim |-> FALSE]
    ELSE IF Trailing(shape) = 3 THEN [err |-> "none", zdim |-> TRUE]
    ELSE any_has_z(data)

\* The Z-dimension flag of __rmul__
zdim_rmul(shape, data) ==
    IF Trailing(shape) = 2 THEN [err |-> "none", zdim |-> FALSE]
    ELSE IF Trailing(shape) = 3 THEN [err |-> "none", zdim |-> TRUE]
    ELSE any_has_z(data)

\* The ordinates pygeos hands to the transformation: x, y and, with zdim, z
\* (NaN for a geometry without one).
Coords(g, zdim) ==
    IF zdim
    THEN IF Len(g.c) = 3 THEN g.c ELSE g.c \o <<NaN>>
    ELSE SubSeq(g.c, 1, 2)

NumCoords(data) == Cardinality({i \in 1..Len(data) : data[i].k = "geom"})

\* Whether pt `op` other keeps the (N, k) shape of the coordinate array.
BroadcastOK(shape, n, k) ==
    \/ Len(shape) = 0
    \/ Len(shape) = 1 /\ shape[1] \in {1, k}
    \/ Len(shape) = 2 /\ shape[2] \in {1, k} /\ shape[1] \in {1, n}

RECURSIVE Dot(_, _, _)
Dot(row, vec, i) ==
    IF i > Len(row) THEN 0
    ELSE LET rest == Dot(row, vec, i + 1) IN
         IF vec[i] = NaN \/ rest = NaN THEN NaN ELSE row[i] * vec[i] + rest

\* _affine(points): (matrix @ [points, 1])[:-1]
affine_point(m, c) ==
    [i \in 1..(Len(m) - 1) |-> Dot(m[i], c \o <<1>>, 1)]

\* The transformation handed to pygeos, on one geometry's ordinates:
\* pt + other, pt * other (other filled with f.v), or _affine.
Transform(f, c) ==
    IF f.kind = "add" THEN [i \in 1..Len(c) |-> FAdd(c[i], f.v)]
    ELSE IF f.kind = "mul" THEN [i \in 1..Len(c) |-> FMul(c[i], f.v)]
    ELSE affine_point(f.m, c)

\* pygeos.coordinates.apply(self.data, f, zdim) wrapped in a Column; ok says
\* whether f's result has the shape of its argument.
apply(arrs, view, f, ok, zdim) ==
    LET data == Deref(arrs, view) IN
    IF Text \in Range(data) THEN Fail("TypeError", arrs)
    ELSE IF ~ok THEN Fail("ValueError", arrs)
    ELSE init_fresh(arrs, [i \in 1..Len(data) |->
                              IF data[i].k = "geom"
                              THEN Geom(Transform(f, Coords(data[i], zdim)))
                              ELSE data[i]])

\* Columns x + other, other + x, x * other, other * x, given the flag z and
\* an operand of the given shape filled with v.
arith(arrs, view, z, shape, kind, v) ==
    IF z.err # "none" THEN Fail(z.err, arrs)
    ELSE apply(arrs, view, [kind |-> kind, v |-> v],
               BroadcastOK(shape, NumCoords(Deref(arrs, view)),
                           IF z.zdim THEN 3 ELSE 2),
               z.zdim)

\* Affine matrices as callers pass them.
M23 == <<<<1, 2, 1>>, <<0, 1, 0>>>>
M33 == <<<<1, 2, 1>>, <<0, 1, 0>>, <<0, 0, 1>>>>
M34 == <<<<1, 0, 0, 1>>, <<0, 1, 0, 0>>, <<0, 0, 2, 0>>>>
M44 == <<<<1, 0, 0, 1>>, <<0, 1, 0, 0>>, <<0, 0, 2, 0>>, <<0, 0, 0, 1>>>>
F6 == <<1, 2, 0, 1, 1, 0>>
F12 == <<1, 0, 0, 0, 1, 0, 0, 0, 2, 1, 0, 0>>
AffineInputs ==
    {[t |-> "nd", m |-> m] : m \in {M23, M33, M34, M44}}
        \cup {[t |-> "flat", m |-> m] : m \in {F6, F12}}

\* np.ndarray(rows): numpy's low-level constructor reads its first argument
\* as a shape, and a list of lists is not one.
np_ndarray(rows) == [err |-> "TypeError", zdim |-> FALSE, m |-> <<>>]

\* GeosArray.affine: the matrix and the flag the argument resolves to.
affine_matrix(matrix) ==
    IF matrix.t = "nd"
    THEN LET r == Len(matrix.m)
             c == Len(matrix.m[1])
         IN [err |-> "none", zdim |-> c = 4,
             m |-> IF r = 2 THEN Append(matrix.m, <<0, 0, 1>>)
                   ELSE IF c = 4 /\ r = 3 THEN Append(matrix.m, <<0, 0, 0, 1>>)
                   ELSE matrix.m]
    ELSE IF Len(matrix.m) = 6
    THEN np_ndarray(<<<<matrix.m[1], matrix.m[2], matrix.m[5]>>,
                      <<matrix.m[3], matrix.m[4], matrix.m[6]>>,
                      <<0, 0, 1>>>>)
    ELSE np_ndarray(<<<<matrix.m[1], matrix.m[2], matrix.m[3], matrix.m[10]>>,
                      <<matrix.m[4], matrix.m[5], matrix.m[6], matrix.m[11]>>,
                      <<matrix.m[7], matrix.m[8], matrix.m[9], matrix.m[12]>>,
                      <<0, 0, 0, 1>>>>)

\* GeosArray.affine(matrix)
affine(arrs, view, matrix) ==
    LET am == affine_matrix(matrix) IN
    IF am.err # "none" THEN Fail(am.err, arrs)
    ELSE apply(arrs, view, [kind |-> "affine", m |-> am.m],
               Len(am.m) = (IF am.zdim THEN 4 ELSE 3), am.zdim)

----------------------------------------------------------------------------
Init ==
    /\ arrays = <<>>
    /\ cols = {}
    /\ res = Idle

CtorRes(kind, before, r, after) ==
    [op |-> "construct", src |-> kind, before |-> before, err |-> r.err,
     out |-> Out(r), after |-> after]

\* GeosArray(x) for a scalar x
ConstructScalar ==
    /\ res = Idle
    /\ \E v \in Elems :
        LET r == init(arrays, [t |-> "scalar", v |-> v]) IN
        /\ Commit(r, TRUE)
        /\ res' = CtorRes("scalar", <<v>>, r, <<v>>)

\* GeosArray(l) for a Python list l
ConstructList ==
    /\ res = Idle
    /\ \E s \in SeqsUpTo(Elems, MaxLen) :
        LET r == init(arrays, [t |-> "list", s |-> s]) IN
        /\ Commit(r, TRUE)
        /\ res' = CtorRes("list", s, r, s)

\* GeosArray(a) for an object ndarray a the caller built and keeps
ConstructNdarray ==
    /\ res = Idle
    /\ \E s \in SeqsUpTo(Elems, MaxLen) :
        LET r == init_fresh(arrays, s) IN
        /\ Commit(r, TRUE)
        /\ res' = CtorRes("nd", s, r,
                          Deref(r.arrs, Whole(Len(arrays) + 1, Len(s))))

\* GeosArray(c) for a Column c
ConstructCol ==
    /\ res = Idle
    /\ \E c \in cols :
        LET r == init(arrays, [t |-> "col", view |-> ViewOf(c)]) IN
        /\ Commit(r, TRUE)
        /\ res' = CtorRes("col", Data(c), r, Deref(r.arrs, ViewOf(c)))

OpRes(op, c, args, r) ==
    [op |-> op, col |-> c, args |-> args, err |-> r.err, out |-> Out(r),
     after |-> Deref(r.arrs, ViewOf(c))]

FromFactorized ==
    /\ res = Idle
    /\ \E c \in cols :
        LET r == from_factorized(arrays, ViewOf(c)) IN
        /\ Commit(r, TRUE)
        /\ res' = OpRes("from_factorized", c, <<>>, r)

GetItemInt ==
    /\ res = Idle
    /\ \E c \in cols, key \in IdxRange :
        LET g == getitem_int(Data(c), key) IN
        /\ UNCHANGED <<arrays, cols>>
        /\ res' = [op |-> "getitem", col |-> c, args |-> <<key>>, err |-> g.err,
                   val |-> g.val, out |-> {}, after |-> Data(c)]

GetItemSlice ==
    /\ res = Idle
    /\ \E c \in cols :
        \E lo \in 0..Len(c.ix), hi \in 0..Len(c.ix) :
            LET r == getitem_slice(arrays, ViewOf(c), lo, hi) IN
            /\ Commit(r, TRUE)
            /\ res' = OpRes("getslice", c, <<lo, hi>>, r)

GetItemSeq ==
    /\ res = Idle
    /\ \E c \in cols, key \in SeqsUpTo(IdxRange, MaxLen) :
        LET r == getitem_seq(arrays, ViewOf(c), key) IN
        /\ Commit(r, TRUE)
        /\ res' = OpRes("getseq", c, key, r)

SetItem ==
    /\ res = Idle
    /\ \E c \in cols, key \in IdxRange, value \in Elems :
        /\ arrays' = WriteView(arrays, ViewOf(c), setitem(Data(c), key, value))
        /\ UNCHANGED cols
        /\ res' = [op |-> "setitem", col |-> c, args |-> <<key, value>>,
                   err |-> "none", out |-> {},
                   after |-> Deref(arrays', ViewOf(c))]

Length ==
    /\ res = Idle
    /\ \E c \in cols :
        /\ UNCHANGED <<arrays, cols>>
        /\ res' = [op |-> "len", col |-> c, args |-> <<>>, err |-> "none",
                   val |-> Len(Data(c)), out |-> {}, after |-> Data(c)]

IsNa ==
    /\ res = Idle
    /\ \E c \in cols :
        /\ UNCHANGED <<arrays, cols>>
        /\ res' = [op |-> "isna", col |-> c, args |-> <<>>, err |-> "none",
                   val |-> isna(Data(c)), out |-> {}, after |-> Data(c)]

\* c == other for a Column other of the same length
Eq ==
    /\ res = Idle
    /\ \E c \in cols :
        \E o \in Fresh(Len(c.ix)) \cup {Data(d) : d \in {x \in cols : Len(x.ix) = Len(c.ix)}} :
            /\ UNCHANGED <<arrays, cols>>
            /\ res' = [op |-> "eq", col |-> c, args |-> o, err |-> "none",
                       val |-> eq(Data(c), o), out |-> {}, after |-> Data(c)]

Take ==
    /\ res = Idle
    /\ \E c \in cols, indices \in SeqsUpTo(IdxRange, MaxLen), allow_fill \in BOOLEAN :
        \E fill_value \in IF allow_fill THEN Elems ELSE {None} :
            LET r == take(arrays, ViewOf(c), indices, allow_fill, fill_value) IN
            /\ Commit(r, TRUE)
            /\ res' = OpRes("take", c, <<indices, allow_fill, fill_value>>, r)

Copy ==
    /\ res = Idle
    /\ \E c \in cols :
        LET r == copy(arrays, ViewOf(c)) IN
        /\ Commit(r, TRUE)
        /\ res' = OpRes("copy", c, <<>>, r)

\* c._concat_same_type([c]) and c._concat_same_type([c, other])
Concat ==
    /\ res = Idle
    /\ \E c \in cols :
        \E datas \in {<<Data(c)>>} \cup
                     {<<Data(c), o>> :
                         o \in UNION {Fresh(n) : n \in 1..(MaxLen - Len(c.ix))}
                               \cup {Data(d) : d \in {x \in cols :
                                        Len(x.ix) + Len(c.ix) <= MaxLen}}} :
            LET r == concat_same_type(arrays, datas) IN
            /\ Commit(r, TRUE)
            /\ res' = OpRes("concat", c, datas, r)

ArithRes(op, c, shape, z, r) ==
    [op |-> op, col |-> c, args |-> shape, err |-> r.err, out |-> Out(r),
     after |-> Deref(r.arrs, ViewOf(c)), zerr |-> z.err, zdim |-> z.zdim]

Add ==
    /\ res = Idle
    /\ \E c \in cols, shape \in Shapes :
        LET z == zdim_add(shape, Data(c))
            r == arith(arrays, ViewOf(c), z, shape, "add", 2)
        IN /\ Commit(r, FALSE)
           /\ res' = ArithRes("add", c, shape, z, r)

Radd ==
    /\ res = Idle
    /\ \E c \in cols, shape \in Shapes :
        LET z == zdim_radd(shape, Data(c))
            r == arith(arrays, ViewOf(c), z, shape, "add", 2)
        IN /\ Commit(r, FALSE)
           /\ res' = ArithRes("radd", c, shape, z, r)

Mul ==
    /\ res = Idle
    /\ \E c \in cols, shape \in Shapes :
        LET z == zdim_mul(shape, Data(c))
            r == arith(arrays, ViewOf(c), z, shape, "mul", 2)
        IN /\ Commit(r, FALSE)
           /\ res' = ArithRes("mul", c, shape, z, r)

Rmul ==
    /\ res = Idle
    /\ \E c \in cols, shape \in Shapes :
        LET z == zdim_rmul(shape, Data(c))
            r == arith(arrays, ViewOf(c), z, shape, "mul", 2)
        IN /\ Commit(r, FALSE)
           /\ res' = ArithRes("rmul", c, shape, z, r)

Affine ==
    /\ res = Idle
    /\ \E c \in cols, matrix \in AffineInputs :
        LET am == affine_matrix(matrix)
            r == affine(arrays, ViewOf(c), matrix)
        IN /\ Commit(r, FALSE)
           /\ res' = [op |-> "affine", col |-> c, args |-> matrix, err |-> r.err,
                      out |-> Out(r), after |-> Deref(r.arrs, ViewOf(c)),
                      merr |-> am.err, m |-> am.m, zdim |-> am.zdim]

\* The caller takes the outcome; the next call can start.
Return ==
    /\ res # Idle
    /\ res' = Idle
    /\ UNCHANGED <<arrays, cols>>

Next ==
    \/ ConstructScalar
    \/ ConstructList
    \/ ConstructNdarray
    \/ ConstructCol
    \/ FromFactorized
    \/ GetItemInt
    \/ GetItemSlice
    \/ GetItemSeq
    \/ SetItem
    \/ Length
    \/ IsNa
    \/ Eq
    \/ Take
    \/ Copy
    \/ Concat
    \/ Add
    \/ Radd
    \/ Mul
    \/ Rmul
    \/ Affine
    \/ Return

Spec == Init /\ [][Next]_vars

----------------------------------------------------------------------------
\* The claims.

IsHandleOrNone(v) == v.k \in {"geom", "none"}
TakeIndices == res.args[1]
TakeAllowFill == res.args[2]
TakeFillValue == res.args[3]

\* C1: take(indices, allow_fill=true, fill_value) with a handle or a null as
\* fill value and every index -1 or a position of the column returns a
\* Column of length len(indices) that holds the fill value (the missing
\* sentinel for a null fill) where the index is -1 and element i where it is
\* i >= 0.
C1_TakeFillsMinusOne ==
    (/\ res.op = "take"
     /\ TakeAllowFill
     /\ isinstance_type(TakeFillValue) \/ pd_isnull(TakeFillValue)
     /\ \A i \in 1..Len(TakeIndices) :
            0 - 1 <= TakeIndices[i] /\ TakeIndices[i] < Len(res.col.orig))
    => /\ res.err = "none"
       /\ res.out = {[i \in 1..Len(TakeIndices) |->
                        IF TakeIndices[i] = 0 - 1
                        THEN (IF pd_isnull(TakeFillValue) THEN None ELSE TakeFillValue)
                        ELSE res.col.orig[TakeIndices[i] + 1]]}

\* C2: constructing from a non-empty sequence of handles and null markers,
\* whichever marker each null is, succeeds, and is_missing() of the result is
\* true exactly at the positions that held a null marker.
C2_NullMarkerIndependent ==
    (/\ res.op = "construct"
     /\ res.src \in {"list", "nd"}
     /\ Len(res.before) > 0
     /\ \A i \in 1..Len(res.before) :
            isinstance_type(res.before[i]) \/ pd_isnull(res.before[i]))
    => /\ res.err = "none"
       /\ \A o \in res.out :
            isna(o) = [i \in 1..Len(res.before) |-> pd_isnull(res.before[i])]

\* C3: every element of every Column that exists, the live ones and the one
\* the last call returned, is a geometry handle or the missing sentinel.
C3_ElementDomain ==
    /\ \A c \in cols : \A i \in 1..Len(c.ix) : IsHandleOrNone(Data(c)[i])
    /\ res # Idle => \A o \in res.out : \A i \in 1..Len(o) : IsHandleOrNone(o[i])

\* C4: a Column holds, after every call made on it or on a Column that shares
\* its buffer, the elements it held right after its construction: every live
\* Column does, and so does the operand of the last call, a set(key, value)
\* with a valid key included.
C4_ColumnsImmutable ==
    /\ \A c \in cols : Data(c) = c.orig
    /\ res.op \notin {"idle", "construct"} => res.after = res.col.orig
    /\ res.op = "construct" /\ res.src = "col" => res.after = res.before

\* set(key, value) was called with a valid key and a value other than the
\* element at that key.
C4_SetCalled ==
    /\ res.op = "setitem"
    /\ InBounds(res.args[1], Len(res.col.orig))
    /\ res.args[2] # res.col.orig[Wrap(res.args[1], Len(res.col.orig))]

\* C5 as stated: the comparison of two Columns is null wherever either
\* element is missing, and the equality of the handles where both are handles.
C5_EqNullAware ==
    res.op = "eq" =>
        \A i \in 1..Len(res.val) :
            /\ is_missing(res.col.orig[i]) \/ is_missing(res.args[i])
                  => res.val[i] = "null"
            /\ isinstance_type(res.col.orig[i]) /\ isinstance_type(res.args[i])
                  => res.val[i] = Truth(HandleEq(res.col.orig[i], res.args[i]))

\* C5, amended: the comparison of two Columns of equal length is a plain
\* boolean at every position: true where both elements are missing, false
\* where exactly one is, and the equality of the handles where both are
\* handles.
C5_EqElementwise ==
    res.op = "eq" =>
        /\ Len(res.val) = Len(res.col.orig)
        /\ \A i \in 1..Len(res.val) :
            /\ is_missing(res.col.orig[i]) /\ is_missing(res.args[i])
                  => res.val[i] = "true"
            /\ is_missing(res.col.orig[i]) # is_missing(res.args[i])
                  => res.val[i] = "false"
            /\ isinstance_type(res.col.orig[i]) /\ isinstance_type(res.args[i])
                  => res.val[i] = Truth(HandleEq(res.col.orig[i], res.args[i]))

\* Two Columns were compared that are both missing at one position and
\* missing on one side only at another.
C5_MissingCompared ==
    /\ res.op = "eq"
    /\ \E i \in 1..Len(res.val) :
          is_missing(res.col.orig[i]) /\ is_missing(res.args[i])
    /\ \E i \in 1..Len(res.val) :
          is_missing(res.col.orig[i]) # is_missing(res.args[i])

\* The sources construct recognises: a handle, a null, a Column, a non-empty
\* sequence of handles and nulls.
Recognised ==
    \/ res.src = "col"
    \/ /\ res.src = "scalar"
       /\ isinstance_type(res.before[1]) \/ pd_isnull(res.before[1])
    \/ /\ res.src \in {"list", "nd"}
       /\ Len(res.before) > 0
       /\ \A i \in 1..Len(res.before) :
              isinstance_type(res.before[i]) \/ pd_isnull(res.before[i])

\* The errors that report an input of the wrong type: Python's TypeError,
\* and the ValueError the constructor raises with "Data should be an iterable
\* of <type>".
TypeErrors == {"TypeError", "ValueError"}

\* C6: construct fails with a type error, and returns no Column, whenever
\* its source is not a recognised one, the empty sequence included.
C6_ConstructTypeError ==
    res.op = "construct" /\ ~Recognised =>
        res.err \in TypeErrors /\ res.out = {}

ArithOps == {"add", "radd", "mul", "rmul"}
ColumnHasZ(data) == \E i \in 1..Len(data) : has_z(data[i])

\* C8: each of add, radd, mul and rmul works in 2D for an operand with a
\* trailing dimension of 2, in 3D for one of 3, and for any other operand in
\* 3D exactly when some geometry of the Column has Z; the geometries of the
\* result have Z exactly when the operation worked in 3D.
C8_DimensionInference ==
    res.op \in ArithOps =>
        /\ res.zerr = "none" \/ Text \in Range(res.col.orig)
        /\ res.zerr = "none" =>
              res.zdim = CASE Len(res.args) > 0 /\ res.args[Len(res.args)] = 2 -> FALSE
                           [] Len(res.args) > 0 /\ res.args[Len(res.args)] = 3 -> TRUE
                           [] OTHER -> ColumnHasZ(res.col.orig)
        /\ \A o \in res.out : \A i \in 1..Len(o) :
              isinstance_type(o[i]) => (has_z(o[i]) <=> res.zdim)

\* other * column was computed for an operand of trailing size 2 on a Column
\* that holds a geometry with Z.
C8_RmulTwoOnZ ==
    /\ res.op = "rmul"
    /\ res.args = <<2>>
    /\ ColumnHasZ(res.col.orig)
    /\ res.out # {}

\* C9: construct leaves the elements of its source as they were.
C9_SourceUntouched ==
    res.op = "construct" /\ res.err = "none" => res.after = res.before

\* The homogeneous matrix a form of the affine argument stands for.
Homogeneous(matrix) ==
    IF matrix.t = "flat"
    THEN IF Len(matrix.m) = 6
         THEN <<<<matrix.m[1], matrix.m[2], matrix.m[5]>>,
                <<matrix.m[3], matrix.m[4], matrix.m[6]>>,
                <<0, 0, 1>>>>
         ELSE <<<<matrix.m[1], matrix.m[2], matrix.m[3], matrix.m[10]>>,
                <<matrix.m[4], matrix.m[5], matrix.m[6], matrix.m[11]>>,
                <<matrix.m[7], matrix.m[8], matrix.m[9], matrix.m[12]>>,
                <<0, 0, 0, 1>>>>
    ELSE IF Len(matrix.m) = Len(matrix.m[1]) THEN matrix.m
    ELSE Append(matrix.m, [j \in 1..Len(matrix.m[1]) |->
                              IF j = Len(matrix.m[1]) THEN 1 ELSE 0])

\* C10: affine resolves a 2x3 or 3x3 matrix and a list of 6 coefficients to
\* a 3x3 matrix applied in 2D, a 3x4 or 4x4 matrix and a list of 12 to a 4x4
\* matrix applied in 3D, and returns a transformed Column for each.
C10_AffineForms ==
    res.op = "affine" =>
        /\ res.merr = "none"
        /\ res.m = Homogeneous(res.args)
        /\ res.zdim = (Len(Homogeneous(res.args)) = 4)
        /\ Text \notin Range(res.col.orig) => res.err = "none" /\ res.out # {}
====
